---- MODULE Spec2Model ----
(***************************************************************************)
(* The file tools of gitmcp.py (batch_update_files, delete_files_batch,    *)
(* move_file, move_files_batch, rename_file, edit_file) run by clients     *)
(* against one branch of one remote repository.  Every remote call of a    *)
(* tool is one step, so calls of different clients interleave.  The remote *)
(* store answers each call truthfully: a read of a missing path raises     *)
(* GithubException (404), a ref update that is not a fast forward raises   *)
(* GithubException (422).                                                  *)
(*                                                                         *)
(* A path is the sequence of its slash-separated segments, a file content  *)
(* is a sequence of characters, and a blob's sha is the content it names.  *)
(***************************************************************************)
EXTENDS Integers, Sequences, FiniteSets, TLC

VARIABLES commits, tip, inv, ext, srv

vars == <<commits, tip, inv, ext, srv>>

(* ------------------------------ bounds --------------------------------- *)

\* longest changes / file_paths / moves list of a call by the first client
MaxBatch == 2
\* commits made by clients outside the model
MaxExternal == 1

\* requests the HTTP server handles
MaxRequests == 3

Procs == {1, 2}

(* ------------------------------- paths --------------------------------- *)

\* a listing returns its entries sorted by name; PathOrder is that order
PathOrder == << <<"a">>, <<"b">>, <<"d", "x">>, <<"d", "y">> >>

Range(s) == {s[k] : k \in 1..Len(s)}

Paths == Range(PathOrder)

Root == <<>>

Names == {"a", "b", "x", "y"}

IsUnder(q, dir) == Len(q) > Len(dir) /\ SubSeq(q, 1, Len(dir)) = dir

(* ------------------------------ contents ------------------------------- *)

Chars == {"f", "g"}

\* contents of the files of the first commit
InitContent(q) ==
    CASE q = <<"a">> -> <<"f", "f", "f">>
      [] q = <<"b">> -> <<"g">>
      [] q = <<"d", "x">> -> <<"f", "g">>
      [] OTHER -> <<"g", "f">>

\* modes of the files of the first commit: d/x is executable
InitMode(q) == IF q = <<"d", "x">> THEN "100755" ELSE "100644"

\* contents a call may write
WriteContents == {<<"f">>, <<"g", "g">>}

\* contents a client outside the model writes
ExternalContents == {<<"g", "g">>}

(* ---------------------------- trees, commits --------------------------- *)

NoFile == [sha |-> <<>>, mode |-> "absent"]

EmptyTree == [q \in Paths |-> NoFile]

AlwaysExists(tree, q) == TRUE

Exists(tree, q) == tree[q].mode # "absent"

Files(tree) == {q \in Paths : Exists(tree, q)}

TipTree == commits[tip].tree

\* git ancestry: a is c or an ancestor of c
RECURSIVE IsAncestor(_, _)
IsAncestor(a, c) ==
    \/ a = c
    \/ /\ commits[c].parent # 0
       /\ IsAncestor(a, commits[c].parent)

(* ------------------------- remote reads ------------------------------- *)

\* repo.get_contents(dir, ref=branch) of a directory: its entries in name
\* order, a file as type "file" with its blob sha, a subdirectory as type
\* "dir"
RECURSIVE ListFrom(_, _, _, _)
ListFrom(tree, dir, k, acc) ==
    IF k > Len(PathOrder) THEN acc
    ELSE LET q == PathOrder[k]
             sub == SubSeq(q, 1, Len(dir) + 1)
         IN  IF ~(Exists(tree, q) /\ IsUnder(q, dir))
             THEN ListFrom(tree, dir, k + 1, acc)
             ELSE IF Len(q) = Len(dir) + 1
             THEN ListFrom(tree, dir, k + 1,
                      Append(acc, [type |-> "file", path |-> q, sha |-> tree[q].sha]))
             ELSE IF \E j \in 1..Len(acc) : acc[j].type = "dir" /\ acc[j].path = sub
             THEN ListFrom(tree, dir, k + 1, acc)
             ELSE ListFrom(tree, dir, k + 1,
                      Append(acc, [type |-> "dir", path |-> sub, sha |-> <<>>]))

Listing(tree, dir) == ListFrom(tree, dir, 1, <<>>)

\* the directory exists at the tree: the root always, another one when a file
\* lies under it
DirExists(tree, dir) == dir = Root \/ \E q \in Files(tree) : IsUnder(q, dir)

DirItem(dir) == [type |-> "dir", path |-> dir, sha |-> <<>>]

(* ------------------------- a tool invocation --------------------------- *)

Idle ==
    [tool |-> "none", pc |-> "idle",
     changes |-> <<>>, file_paths |-> <<>>, moves |-> <<>>,
     source_path |-> <<>>, destination_path |-> <<>>,
     file_path |-> <<>>, new_name |-> <<>>, old_text |-> <<>>, new_text |-> <<>>,
     folder_path |-> <<>>, outer |-> "none",
     i |-> 1, source_paths |-> <<>>, dest_paths |-> <<>>, file_contents |-> <<>>,
     content |-> <<>>, new_content |-> <<>>,
     latest |-> 0, blobs |-> <<>>, todo |-> <<>>,
     all_contents |-> <<>>, tree_elements |-> <<>>,
     tree |-> EmptyTree, commit |-> 0,
     calls |-> <<>>, first_read |-> 0, faults |-> 0,
     result |-> "none", err_path |-> <<>>, occurrences |-> 0]

Set(p, r) == inv' = [inv EXCEPT ![p] = r]

\* how many calls of that name the invocation has made
CountCalls(p, name) ==
    Cardinality({k \in 1..Len(inv[p].calls) : inv[p].calls[k] = name})

Log(p, names) == inv[p].calls \o names

\* the sequence <<x, x, ..., x>> of length n
Times(x, n) == [k \in 1..n |-> x]

\* every sequence over S of length at most n
SeqsUpTo(S, n) == UNION {[1..k -> S] : k \in 0..n}

\* no token: the empty string, or the variable not set
NoToken == ""

\* the HTTP server process as started: GITHUB_TOKEN of its environment as the
\* operator set it (or not), no client created yet, no request handled
Started(token) ==
    [environ |-> token, operator |-> token # NoToken,
     github_client |-> NoToken, github_clients |-> {},
     requests |-> 0,
     last |-> [auth |-> [scheme |-> "none", token |-> NoToken], method |-> "none",
               tool |-> "none", token |-> NoToken, code |-> 0, ran |-> FALSE,
               credential |-> NoToken]]

\* the branch with its first commit, no call made
InitBranch ==
    /\ \E present \in SUBSET {<<"b">>, <<"d", "x">>} :
          commits = << [tree |-> [q \in Paths |->
                                    IF q = <<"a">> \/ q \in present
                                    THEN [sha |-> InitContent(q), mode |-> InitMode(q)]
                                    ELSE NoFile],
                        parent |-> 0, by |-> 0] >>
    /\ tip = 1
    /\ inv = [p \in Procs |-> Idle]
    /\ ext = 0

Init == InitBranch /\ srv = Started(NoToken)

(* --------------- another client commits to the branch ------------------ *)

\* A client outside the model writes or deletes one file through the
\* contents API: a new commit on top of the current tip.
ExternalCommit(P) ==
    /\ ext < MaxExternal
    /\ \E q \in P :
       \E e \in {NoFile} \cup {[sha |-> c, mode |-> "100644"] : c \in ExternalContents} :
          /\ e # TipTree[q]
          /\ commits' = Append(commits,
                 [tree |-> [TipTree EXCEPT ![q] = e], parent |-> tip, by |-> 0])
          /\ tip' = Len(commits) + 1
    /\ ext' = ext + 1
    /\ UNCHANGED <<inv, srv>>

(* ------------------------- text of edit_file --------------------------- *)

\* t matches s at position k
MatchAt(s, t, k) == k + Len(t) - 1 <= Len(s) /\ SubSeq(s, k, k + Len(t) - 1) = t

\* Python's `t in s`
Contains(s, t) == \E k \in 1..(Len(s) + 1) : MatchAt(s, t, k)

\* Python's s.count(t): the matches found scanning left to right, the scan
\* resuming after each match (non-overlapping); the empty t is counted
\* Len(s) + 1 times
RECURSIVE CountFrom(_, _, _)
CountFrom(s, t, k) ==
    IF k + Len(t) - 1 > Len(s) THEN 0
    ELSE IF MatchAt(s, t, k) THEN 1 + CountFrom(s, t, k + Len(t))
    ELSE CountFrom(s, t, k + 1)

StrCount(s, t) == IF t = <<>> THEN Len(s) + 1 ELSE CountFrom(s, t, 1)

\* Python's s.replace(t, r): every match of the same scan replaced; the
\* empty t puts r before every character and at the end
RECURSIVE ReplaceFrom(_, _, _, _)
ReplaceFrom(s, t, r, k) ==
    IF k > Len(s) THEN <<>>
    ELSE IF MatchAt(s, t, k) THEN r \o ReplaceFrom(s, t, r, k + Len(t))
    ELSE <<s[k]>> \o ReplaceFrom(s, t, r, k + 1)

RECURSIVE Interleave(_, _, _)
Interleave(s, r, k) ==
    IF k > Len(s) THEN r ELSE r \o <<s[k]>> \o Interleave(s, r, k + 1)

StrReplace(s, t, r) ==
    IF t = <<>> THEN Interleave(s, r, 1) ELSE ReplaceFrom(s, t, r, 1)

(* ------------------------ tree synthesis ------------------------------- *)

Elem(q, sha) == [path |-> q, mode |-> "100644", type |-> "blob", sha |-> sha]

HasDuplicatePaths(elems) ==
    \E j, k \in 1..Len(elems) : j < k /\ elems[j].path = elems[k].path

\* the tree the store builds from an entry list on top of a base tree: the
\* entries are applied in order, a later entry for a path replacing an
\* earlier one
RECURSIVE ApplyEntries(_, _, _)
ApplyEntries(base, elems, k) ==
    IF k > Len(elems) THEN base
    ELSE ApplyEntries([base EXCEPT ![elems[k].path] =
                          [sha |-> elems[k].sha, mode |-> elems[k].mode]],
                      elems, k + 1)

\* the loop of get_all_files over the entries already fetched: files are
\* appended (unless excluded) until the next directory, whose listing is the
\* next remote call
RECURSIVE Drain(_, _, _)
Drain(todo, acc, excluded) ==
    IF todo = <<>> \/ Head(todo).type = "dir" THEN [todo |-> todo, acc |-> acc]
    ELSE Drain(Tail(todo),
               IF Head(todo).path \in excluded THEN acc
               ELSE Append(acc, Elem(Head(todo).path, Head(todo).sha)),
               excluded)

\* the same loop in delete_files_batch, which keeps every file it lists
RECURSIVE DrainAll(_, _)
DrainAll(todo, acc) ==
    IF todo = <<>> \/ Head(todo).type = "dir" THEN [todo |-> todo, acc |-> acc]
    ELSE DrainAll(Tail(todo), Append(acc, Head(todo)))

NothingExcluded(r) == {}

\* the paths the walk of a move tool leaves out
WalkExcluded(r) ==
    IF r.tool = "move_files_batch" THEN Range(r.source_paths) ELSE {r.source_path}

AddedFirstOnly(r) ==
    IF r.blobs = <<>> THEN <<>> ELSE << Elem(r.blobs[1].path, r.blobs[1].sha) >>

\* the destination entries a move tool appends after its walk
AddedElems(r) ==
    IF r.tool = "move_files_batch"
    THEN [k \in 1..Len(r.blobs) |-> Elem(r.blobs[k].path, r.blobs[k].sha)]
    ELSE << Elem(r.destination_path, r.blobs[1].sha) >>

\* delete_files_batch keeps every listed file whose path is not in file_paths
KeptElems(r) ==
    LET kept == SelectSeq(r.all_contents, LAMBDA c : c.path \notin Range(r.file_paths))
    IN  [k \in 1..Len(kept) |-> Elem(kept[k].path, kept[k].sha)]

BatchTools ==
    {"batch_update_files", "delete_files_batch", "move_file", "move_files_batch",
     "rename_file"}

Fail(r, kind) == [r EXCEPT !.pc = "done", !.result = kind]

(* ----------------------------- tool calls ------------------------------ *)

\* paths the lists of a call are drawn from
BatchPaths == {<<"a">>, <<"b">>, <<"d", "x">>}

\* paths two concurrent clients work on
PairPaths == {<<"a">>, <<"b">>}

\* Each call draws its paths from P and its list, if it takes one, from the
\* lists of at most n elements.

Call_batch_update_files(p, P, n) ==
    /\ inv[p].pc = "idle"
    /\ \E changes \in SeqsUpTo([path : P, content : WriteContents], n) :
          Set(p, [Idle EXCEPT !.tool = "batch_update_files", !.pc = "ref",
                              !.changes = changes])
    /\ UNCHANGED <<commits, tip, ext, srv>>

Call_delete_files_batch(p, P, n) ==
    /\ inv[p].pc = "idle"
    /\ \E file_paths \in SeqsUpTo(P, n) :
          Set(p, [Idle EXCEPT !.tool = "delete_files_batch", !.pc = "ref",
                              !.file_paths = file_paths])
    /\ UNCHANGED <<commits, tip, ext, srv>>

Call_move_file(p, P) ==
    /\ inv[p].pc = "idle"
    /\ \E s \in P, d \in P :
          Set(p, [Idle EXCEPT !.tool = "move_file", !.pc = "source",
                              !.source_path = s, !.destination_path = d])
    /\ UNCHANGED <<commits, tip, ext, srv>>

\* new_name given to rename_file, as the segments between its slashes: a
\* plain name, or a name with a slash in it
NewNames == {<<n>> : n \in Names} \cup {<<"d", "y">>}

\* rename_file's current_name: the last segment of file_path
CurrentName(file_path) == << file_path[Len(file_path)] >>

\* rename_file's new_path: the directory of file_path joined with new_name by
\* a slash, or new_name alone for a file of the root
NewPath(file_path, new_name) ==
    SubSeq(file_path, 1, Len(file_path) - 1) \o new_name

Call_rename_file(p, P) ==
    /\ inv[p].pc = "idle"
    /\ \E f \in P, name \in NewNames :
          /\ NewPath(f, name) \in P
          /\ Set(p, [Idle EXCEPT !.tool = "rename_file", !.pc = "source",
                                 !.file_path = f, !.new_name = name,
                                 !.source_path = f,
                                 !.destination_path = NewPath(f, name)])
    /\ UNCHANGED <<commits, tip, ext, srv>>

Call_move_files_batch(p, P, n) ==
    /\ inv[p].pc = "idle"
    /\ \E moves \in SeqsUpTo([source : P, destination : P], n) :
          Set(p, [Idle EXCEPT !.tool = "move_files_batch",
                              !.pc = IF moves = <<>> THEN "ref" ELSE "validate",
                              !.moves = moves])
    /\ UNCHANGED <<commits, tip, ext, srv>>

\* folder_path given to delete_folder: a directory, the root, and a path
\* that names a file
Folders == {<<"d">>, Root, <<"a">>}

Call_delete_folder(p, D) ==
    /\ inv[p].pc = "idle"
    /\ \E f \in D :
          Set(p, [Idle EXCEPT !.tool = "delete_folder", !.pc = "folder",
                              !.folder_path = f, !.todo = << DirItem(f) >>])
    /\ UNCHANGED <<commits, tip, ext, srv>>

OldTexts == {<<>>, <<"f">>, <<"g">>, <<"f", "f">>}

NewTexts == {<<"g">>}

Call_edit_file(p, P) ==
    /\ inv[p].pc = "idle"
    /\ \E f \in P, old \in OldTexts, new \in NewTexts :
          Set(p, [Idle EXCEPT !.tool = "edit_file", !.pc = "read",
                              !.file_path = f, !.old_text = old, !.new_text = new])
    /\ UNCHANGED <<commits, tip, ext, srv>>

(* -------------------- validation of the move tools --------------------- *)

NeverDuplicate(seen, x) == FALSE

\* `source in source_paths`, `dest in dest_paths`
IsDuplicate(seen, x) == x \in Range(seen)

DestinationNeverTaken(tree, q) == FALSE

\* repo.get_contents(dest, ref=branch) returns instead of raising
DestinationTaken(tree, q) == Exists(tree, q)

\* move_file / rename_file: the same-name check of rename_file, then the read
\* of the source file
ReadSource(p) ==
    LET r == inv[p] IN
    /\ r.pc = "source"
    /\ IF r.tool = "rename_file" /\ CurrentName(r.file_path) = r.new_name
       THEN Set(p, Fail(r, "SameName"))
       ELSE LET r1 == [r EXCEPT !.calls = Log(p, <<"get_contents">>),
                                !.first_read = tip]
            IN  IF Exists(TipTree, r.source_path)
                THEN Set(p, [r1 EXCEPT !.pc = "dest",
                                       !.content = TipTree[r.source_path].sha])
                ELSE Set(p, Fail(r1, "GithubException"))
    /\ UNCHANGED <<commits, tip, ext, srv>>

CheckDestAfterBlob(p) ==
    LET r == inv[p]
        r1 == [r EXCEPT !.calls = Log(p, <<"create_git_blob", "get_contents">>)]
    IN
    /\ r.pc = "dest"
    /\ IF DestinationTaken(TipTree, r.destination_path)
       THEN Set(p, [Fail(r1, "DestinationExists") EXCEPT
                       !.err_path = r.destination_path])
       ELSE Set(p, [r1 EXCEPT !.pc = "ref"])
    /\ UNCHANGED <<commits, tip, ext, srv>>

\* move_file / rename_file: the destination must not exist
CheckDest(p) ==
    LET r == inv[p]
        r1 == [r EXCEPT !.calls = Log(p, <<"get_contents">>)]
    IN
    /\ r.pc = "dest"
    /\ IF DestinationTaken(TipTree, r.destination_path)
       THEN Set(p, [Fail(r1, "DestinationExists") EXCEPT
                       !.err_path = r.destination_path])
       ELSE Set(p, [r1 EXCEPT !.pc = "ref"])
    /\ UNCHANGED <<commits, tip, ext, srv>>

\* the validation loop of move_files_batch goes on to its next element
NextMove(r) ==
    [r EXCEPT !.i = r.i + 1,
              !.pc = IF r.i + 1 > Len(r.moves) THEN "ref" ELSE "validate"]

\* move_files_batch, one element of the loop: the duplicate checks, the read
\* of the source, and whether the destination is to be checked
ValidateMove(p) ==
    LET r == inv[p]
        source == r.moves[r.i].source
        dest == r.moves[r.i].destination
        r1 == [r EXCEPT !.source_paths = Append(r.source_paths, source),
                        !.dest_paths = Append(r.dest_paths, dest),
                        !.calls = Log(p, <<"get_contents">>),
                        !.first_read = IF r.first_read = 0 THEN tip ELSE r.first_read]
    IN
    /\ r.pc = "validate"
    /\ IF IsDuplicate(r.source_paths, source)
       THEN Set(p, [Fail(r, "DuplicateSource") EXCEPT !.err_path = source])
       ELSE IF IsDuplicate(r.dest_paths, dest)
       THEN Set(p, [Fail(r, "DuplicateDestination") EXCEPT !.err_path = dest])
       ELSE IF ~Exists(TipTree, source)
       THEN Set(p, [Fail(r1, "SourceNotFound") EXCEPT !.err_path = source])
       ELSE LET r2 == [r1 EXCEPT !.file_contents =
                          Append(r.file_contents,
                                 [path |-> dest, content |-> TipTree[source].sha])]
            IN  IF dest \notin Range(r2.source_paths)
                THEN Set(p, [r2 EXCEPT !.pc = "validate_dest"])
                ELSE Set(p, NextMove(r2))
    /\ UNCHANGED <<commits, tip, ext, srv>>

\* move_files_batch: the destination of the current element must not exist
ValidateDest(p) ==
    LET r == inv[p]
        dest == r.moves[r.i].destination
        r1 == [r EXCEPT !.calls = Log(p, <<"get_contents">>)]
    IN
    /\ r.pc = "validate_dest"
    /\ IF DestinationTaken(TipTree, dest)
       THEN Set(p, [Fail(r1, "DestinationExists") EXCEPT !.err_path = dest])
       ELSE Set(p, NextMove(r1))
    /\ UNCHANGED <<commits, tip, ext, srv>>

(* ------------------------------ delete_folder ------------------------- *)

\* what repo.get_contents(path, ref=branch) gives get_folder_files: the
\* listing of a directory, the one item of a file, or nothing when the path
\* does not exist and the call raises
FolderListing(tree, path) ==
    IF path \in Paths /\ Exists(tree, path)
    THEN << [type |-> "file", path |-> path, sha |-> tree[path].sha] >>
    ELSE IF DirExists(tree, path) THEN Listing(tree, path)
    ELSE <<>>

\* delete_folder after get_folder_files: the error for an empty list, or the
\* call of delete_files_batch with the files found
AfterFolder(r) ==
    IF r.todo # <<>> THEN r
    ELSE IF r.all_contents = <<>> THEN Fail(r, "FolderNotFound")
    ELSE [r EXCEPT !.tool = "delete_files_batch", !.outer = "delete_folder",
                   !.pc = "ref",
                   !.file_paths = [k \in 1..Len(r.all_contents) |-> r.all_contents[k].path],
                   !.all_contents = <<>>]

\* get_folder_files: one repo.get_contents of a directory and the loop over
\* its entries up to the next directory
FolderStep(p) ==
    LET r == inv[p]
        got == FolderListing(TipTree, Head(r.todo).path) \o Tail(r.todo)
        d == DrainAll(got, r.all_contents)
    IN
    /\ r.pc = "folder"
    /\ Set(p, AfterFolder([r EXCEPT !.calls = Log(p, <<"get_contents">>),
                                    !.todo = d.todo, !.all_contents = d.acc]))
    /\ UNCHANGED <<commits, tip, ext, srv>>

(* -------------------------- the commit pipeline ------------------------ *)

\* ref = repo.get_git_ref(...); latest_commit = repo.get_git_commit(ref.object.sha)
RefRead(p) ==
    LET r == inv[p] IN
    /\ r.pc = "ref"
    /\ Set(p, [r EXCEPT !.latest = tip,
                        !.calls = Log(p, <<"get_git_ref", "get_git_commit">>),
                        !.pc = IF r.tool = "delete_files_batch" THEN "walk" ELSE "blob",
                        !.todo = << DirItem(Root) >>])
    /\ UNCHANGED <<commits, tip, ext, srv>>

\* the blobs a tool creates, each with the path it is for
BlobsOf(r) ==
    CASE r.tool = "batch_update_files" ->
            [k \in 1..Len(r.changes) |->
                [path |-> r.changes[k].path, sha |-> r.changes[k].content]]
      [] r.tool = "move_files_batch" ->
            [k \in 1..Len(r.file_contents) |->
                [path |-> r.file_contents[k].path, sha |-> r.file_contents[k].content]]
      [] OTHER -> << [path |-> r.destination_path, sha |-> r.content] >>

\* repo.create_git_blob for every new file body
CreateBlobs(p) ==
    LET r == inv[p]
        blobs == BlobsOf(r)
    IN
    /\ r.pc = "blob"
    /\ Set(p, [r EXCEPT !.blobs = blobs,
                        !.calls = Log(p, Times("create_git_blob", Len(blobs))),
                        !.pc = IF r.tool = "batch_update_files" THEN "tree" ELSE "walk",
                        !.tree_elements =
                            IF r.tool = "batch_update_files"
                            THEN [k \in 1..Len(blobs) |-> Elem(blobs[k].path, blobs[k].sha)]
                            ELSE <<>>])
    /\ UNCHANGED <<commits, tip, ext, srv>>

\* what a get_contents of a directory gives get_all_files: the listing, or
\* nothing when the call raises (the except clause swallows it)
ListingOrNothing(tree, dir) ==
    IF DirExists(tree, dir) THEN Listing(tree, dir) ELSE <<>>

\* the invocation after its walk: delete_files_batch filters what it listed,
\* a move tool appends its destinations
AfterWalk(r) ==
    IF r.todo # <<>> THEN r
    ELSE [r EXCEPT !.pc = "tree",
                   !.tree_elements =
                       IF r.tool = "delete_files_batch" THEN KeptElems(r)
                       ELSE r.tree_elements \o AddedElems(r)]

\* get_all_files: one repo.get_contents(path, ref=branch) of a directory, and
\* the loop over its entries up to the next directory
WalkStep(p) ==
    LET r == inv[p]
        got == ListingOrNothing(TipTree, Head(r.todo).path) \o Tail(r.todo)
        r1 == [r EXCEPT !.calls = Log(p, <<"get_contents">>)]
    IN
    /\ r.pc = "walk"
    /\ IF r.tool = "delete_files_batch"
       THEN LET d == DrainAll(got, r.all_contents)
            IN  Set(p, AfterWalk([r1 EXCEPT !.todo = d.todo, !.all_contents = d.acc]))
       ELSE LET d == Drain(got, r.tree_elements, WalkExcluded(r))
            IN  Set(p, AfterWalk([r1 EXCEPT !.todo = d.todo, !.tree_elements = d.acc]))
    /\ UNCHANGED <<commits, tip, ext, srv>>

\* get_all_files when its repo.get_contents raises for a reason other than a
\* missing path (rate limit, timeout, server error): the bare except clause
\* passes, nothing of that directory is collected, and the walk goes on
WalkFail(p) ==
    LET r == inv[p]
        got == Tail(r.todo)
        r1 == [r EXCEPT !.calls = Log(p, <<"get_contents">>),
                        !.faults = r.faults + 1]
    IN
    /\ r.pc = "walk"
    /\ IF r.tool = "delete_files_batch"
       THEN LET d == DrainAll(got, r.all_contents)
            IN  Set(p, AfterWalk([r1 EXCEPT !.todo = d.todo, !.all_contents = d.acc]))
       ELSE LET d == Drain(got, r.tree_elements, WalkExcluded(r))
            IN  Set(p, AfterWalk([r1 EXCEPT !.todo = d.todo, !.tree_elements = d.acc]))
    /\ UNCHANGED <<commits, tip, ext, srv>>

\* A remote call before the ref update raises GithubException for a reason
\* other than the state of the branch: the read of a source, get_git_ref,
\* create_git_blob, create_git_tree or create_git_commit.  The except clause
\* of the tool (of the source read in move_files_batch) returns an error.
RemoteFail(p) ==
    LET r == inv[p]
        call == CASE r.pc \in {"source", "validate"} -> "get_contents"
                  [] r.pc = "ref" -> "get_git_ref"
                  [] r.pc = "blob" -> "create_git_blob"
                  [] r.pc = "tree" -> "create_git_tree"
                  [] OTHER -> "create_git_commit"
        r1 == [r EXCEPT !.calls = Log(p, <<call>>), !.faults = r.faults + 1]
    IN
    /\ r.pc \in {"source", "validate", "ref", "blob", "tree", "commit"}
    /\ r.pc = "source" /\ r.tool = "rename_file"
          => CurrentName(r.file_path) # r.new_name
    /\ r.pc = "validate"
          => /\ ~IsDuplicate(r.source_paths, r.moves[r.i].source)
             /\ ~IsDuplicate(r.dest_paths, r.moves[r.i].destination)
    /\ r.pc = "blob" => BlobsOf(r) # <<>>
    /\ IF r.pc = "validate"
       THEN Set(p, [Fail(r1, "SourceNotFound") EXCEPT
                       !.err_path = r.moves[r.i].source,
                       !.source_paths = Append(r.source_paths, r.moves[r.i].source),
                       !.dest_paths = Append(r.dest_paths, r.moves[r.i].destination),
                       !.first_read = IF r.first_read = 0 THEN tip ELSE r.first_read])
       ELSE Set(p, Fail(r1, "GithubException"))
    /\ UNCHANGED <<commits, tip, ext, srv>>

\* The read of the destination raises GithubException for such a reason: the
\* except clause passes, as if the destination did not exist.
DestFail(p) ==
    LET r == inv[p]
        r1 == [r EXCEPT !.calls = Log(p, <<"get_contents">>),
                        !.faults = r.faults + 1]
    IN
    /\ r.pc \in {"dest", "validate_dest"}
    /\ IF r.pc = "dest" THEN Set(p, [r1 EXCEPT !.pc = "ref"])
       ELSE Set(p, NextMove(r1))
    /\ UNCHANGED <<commits, tip, ext, srv>>

\* repo.create_git_tree(tree_elements), or with base_tree in
\* batch_update_files.  The store builds the tree; an entry list that is
\* empty or names a path twice it may also refuse (422).
CreateTree(p) ==
    LET r == inv[p]
        base == IF r.tool = "batch_update_files" THEN commits[r.latest].tree
                ELSE EmptyTree
        r1 == [r EXCEPT !.calls = Log(p, <<"create_git_tree">>)]
    IN
    /\ r.pc = "tree"
    /\ \/ Set(p, [r1 EXCEPT !.pc = "commit",
                            !.tree = ApplyEntries(base, r.tree_elements, 1)])
       \/ /\ r.tree_elements = <<>> \/ HasDuplicatePaths(r.tree_elements)
          /\ Set(p, Fail(r1, "GithubException"))
    /\ UNCHANGED <<commits, tip, ext, srv>>

\* repo.create_git_commit(commit_message, tree, [latest_commit])
CreateCommit(p) ==
    LET r == inv[p] IN
    /\ r.pc = "commit"
    /\ commits' = Append(commits, [tree |-> r.tree, parent |-> r.latest, by |-> p])
    /\ Set(p, [r EXCEPT !.pc = "edit", !.commit = Len(commits) + 1,
                        !.calls = Log(p, <<"create_git_commit">>)])
    /\ UNCHANGED <<tip, ext, srv>>

AlwaysAccepted(c) == TRUE

\* the store's answer to ref.edit(sha) with force=False: the update is taken
\* when it is a fast forward of the branch
FastForward(c) == IsAncestor(tip, c)

RefEditRetrying(p) ==
    LET r == inv[p]
        r1 == [r EXCEPT !.calls = Log(p, <<"ref.edit">>)]
    IN
    /\ r.pc = "edit"
    /\ IF FastForward(r.commit)
       THEN /\ tip' = r.commit
            /\ Set(p, [r1 EXCEPT !.pc = "done", !.result = "success"])
       ELSE /\ tip' = tip
            /\ Set(p, [r1 EXCEPT !.pc = IF CountCalls(p, "ref.edit") = 0
                                        THEN "ref" ELSE "done",
                                 !.result = IF CountCalls(p, "ref.edit") = 0
                                            THEN "none" ELSE "GithubException"])
    /\ UNCHANGED <<commits, ext, srv>>

RefEditForced(p) ==
    LET r == inv[p]
        r1 == [r EXCEPT !.pc = "done", !.calls = Log(p, <<"ref.edit">>)]
    IN
    /\ r.pc = "edit"
    /\ tip' = r.commit
    /\ Set(p, [r1 EXCEPT !.result = IF FastForward(r.commit) THEN "success"
                                    ELSE "GithubException"])
    /\ UNCHANGED <<commits, ext, srv>>

\* ref.edit(commit.sha)
RefEdit(p) ==
    LET r == inv[p]
        r1 == [r EXCEPT !.pc = "done", !.calls = Log(p, <<"ref.edit">>)]
    IN
    /\ r.pc = "edit"
    /\ IF FastForward(r.commit)
       THEN /\ tip' = r.commit
            /\ Set(p, [r1 EXCEPT !.result = "success"])
       ELSE /\ tip' = tip
            /\ Set(p, [r1 EXCEPT !.result = "GithubException"])
    /\ UNCHANGED <<commits, ext, srv>>

(* ------------------------------ edit_file ------------------------------ *)

\* edit_file: the read of the file and the checks on old_text
ReadFile(p) ==
    LET r == inv[p]
        r1 == [r EXCEPT !.calls = Log(p, <<"get_contents">>), !.first_read = tip]
        current_content == TipTree[r.file_path].sha
        occurrences == StrCount(current_content, r.old_text)
    IN
    /\ r.pc = "read"
    /\ IF ~Exists(TipTree, r.file_path)
       THEN Set(p, Fail(r1, "GithubException"))
       ELSE IF ~Contains(current_content, r.old_text)
       THEN Set(p, Fail([r1 EXCEPT !.content = current_content], "TextNotFound"))
       ELSE IF occurrences > 1
       THEN Set(p, Fail([r1 EXCEPT !.content = current_content,
                                   !.occurrences = occurrences], "AmbiguousMatch"))
       ELSE Set(p, [r1 EXCEPT !.pc = "update", !.content = current_content,
                       !.new_content = StrReplace(current_content, r.old_text, r.new_text)])
    /\ UNCHANGED <<commits, tip, ext, srv>>

\* repo.update_file(path, message, content, sha, branch): the store commits
\* the new content on top of the tip when sha is the file's blob there, and
\* raises (409) otherwise
UpdateFile(p) ==
    LET r == inv[p]
        r1 == [r EXCEPT !.pc = "done", !.calls = Log(p, <<"update_file">>)]
    IN
    /\ r.pc = "update"
    /\ IF Exists(TipTree, r.file_path) /\ TipTree[r.file_path].sha = r.content
       THEN /\ commits' = Append(commits,
                   [tree |-> [TipTree EXCEPT ![r.file_path].sha = r.new_content],
                    parent |-> tip, by |-> p])
            /\ tip' = Len(commits) + 1
            /\ Set(p, [r1 EXCEPT !.result = "success", !.latest = tip,
                                 !.commit = Len(commits) + 1])
       ELSE /\ UNCHANGED <<commits, tip>>
            /\ Set(p, [r1 EXCEPT !.result = "GithubException"])
    /\ UNCHANGED <<ext, srv>>


(* ------------------------ write_file, delete_file ---------------------- *)

Call_write_file(p, P) ==
    /\ inv[p].pc = "idle"
    /\ \E f \in P, content \in WriteContents :
          Set(p, [Idle EXCEPT !.tool = "write_file", !.pc = "wread",
                              !.file_path = f, !.new_content = content])
    /\ UNCHANGED <<commits, tip, ext, srv>>

Call_delete_file(p, P) ==
    /\ inv[p].pc = "idle"
    /\ \E f \in P :
          Set(p, [Idle EXCEPT !.tool = "delete_file", !.pc = "dread",
                              !.file_path = f])
    /\ UNCHANGED <<commits, tip, ext, srv>>

\* write_file: existing_file = repo.get_contents(file_path, ref=branch); a
\* GithubException leads to the except clause that creates the file
WriteRead(p) ==
    LET r == inv[p]
        r1 == [r EXCEPT !.calls = Log(p, <<"get_contents">>), !.first_read = tip]
    IN
    /\ r.pc = "wread"
    /\ IF Exists(TipTree, r.file_path)
       THEN Set(p, [r1 EXCEPT !.pc = "wupdate", !.content = TipTree[r.file_path].sha])
       ELSE Set(p, [r1 EXCEPT !.pc = "create"])
    /\ UNCHANGED <<commits, tip, ext, srv>>

\* write_file: repo.update_file(path, message, content, sha, branch); when
\* the store refuses it, the same except clause goes on to create the file
WriteUpdate(p) ==
    LET r == inv[p]
        r1 == [r EXCEPT !.calls = Log(p, <<"update_file">>)]
    IN
    /\ r.pc = "wupdate"
    /\ IF Exists(TipTree, r.file_path) /\ TipTree[r.file_path].sha = r.content
       THEN /\ commits' = Append(commits,
                   [tree |-> [TipTree EXCEPT ![r.file_path].sha = r.new_content],
                    parent |-> tip, by |-> p])
            /\ tip' = Len(commits) + 1
            /\ Set(p, [r1 EXCEPT !.pc = "done", !.result = "success", !.latest = tip,
                                 !.commit = Len(commits) + 1])
       ELSE /\ UNCHANGED <<commits, tip>>
            /\ Set(p, [r1 EXCEPT !.pc = "create"])
    /\ UNCHANGED <<ext, srv>>

\* write_file: repo.create_file(path, message, content, branch), sent without
\* a sha: the store creates the file when the path is free and raises (422)
\* when a file is there
CreateFile(p) ==
    LET r == inv[p]
        r1 == [r EXCEPT !.pc = "done", !.calls = Log(p, <<"create_file">>)]
    IN
    /\ r.pc = "create"
    /\ IF ~Exists(TipTree, r.file_path)
       THEN /\ commits' = Append(commits,
                   [tree |-> [TipTree EXCEPT ![r.file_path] =
                                 [sha |-> r.new_content, mode |-> "100644"]],
                    parent |-> tip, by |-> p])
            /\ tip' = Len(commits) + 1
            /\ Set(p, [r1 EXCEPT !.result = "success", !.latest = tip,
                                 !.commit = Len(commits) + 1])
       ELSE /\ UNCHANGED <<commits, tip>>
            /\ Set(p, [r1 EXCEPT !.result = "GithubException"])
    /\ UNCHANGED <<ext, srv>>

\* delete_file: file_content = repo.get_contents(file_path, ref=branch)
DeleteRead(p) ==
    LET r == inv[p]
        r1 == [r EXCEPT !.calls = Log(p, <<"get_contents">>), !.first_read = tip]
    IN
    /\ r.pc = "dread"
    /\ IF Exists(TipTree, r.file_path)
       THEN Set(p, [r1 EXCEPT !.pc = "delete", !.content = TipTree[r.file_path].sha])
       ELSE Set(p, Fail(r1, "GithubException"))
    /\ UNCHANGED <<commits, tip, ext, srv>>

\* delete_file: repo.delete_file(path, message, sha, branch): the store
\* commits the deletion on top of the tip when sha is the file's blob there,
\* and raises (409) otherwise
DeleteFile(p) ==
    LET r == inv[p]
        r1 == [r EXCEPT !.pc = "done", !.calls = Log(p, <<"delete_file">>)]
    IN
    /\ r.pc = "delete"
    /\ IF Exists(TipTree, r.file_path) /\ TipTree[r.file_path].sha = r.content
       THEN /\ commits' = Append(commits,
                   [tree |-> [TipTree EXCEPT ![r.file_path] = NoFile],
                    parent |-> tip, by |-> p])
            /\ tip' = Len(commits) + 1
            /\ Set(p, [r1 EXCEPT !.result = "success", !.latest = tip,
                                 !.commit = Len(commits) + 1])
       ELSE /\ UNCHANGED <<commits, tip>>
            /\ Set(p, [r1 EXCEPT !.result = "GithubException"])
    /\ UNCHANGED <<ext, srv>>

\* the steps of the tools that write one file through the contents API
FileStep(p) ==
    \/ ReadFile(p)
    \/ UpdateFile(p)
    \/ WriteRead(p)
    \/ WriteUpdate(p)
    \/ CreateFile(p)
    \/ DeleteRead(p)
    \/ DeleteFile(p)

(* ------------------------- the HTTP server ----------------------------- *)

\* tokens GitHub accepts, and one it rejects
ValidTokens == {"t1", "t2"}

Tokens == ValidTokens \cup {"bad"}

\* Authorization headers: none, "Bearer <token>", a bare "github_pat_..."
\* token, and another scheme
Headers ==
    {[scheme |-> "none", token |-> NoToken]}
       \cup [scheme : {"Bearer", "github_pat_", "Basic"}, token : Tokens]
       \cup {[scheme |-> "Bearer", token |-> NoToken]}

\* the token mcp_http_handler takes from the Authorization header
HeaderToken(auth) ==
    IF auth.scheme \in {"Bearer", "github_pat_"} THEN auth.token ELSE NoToken

Methods == {"tools/list", "tools/call", "other"}

\* names a request may give: a registered tool and an unknown one
ToolNames == {"list_repos", "no_such_tool"}

MCP_TOOLS == {"list_repos"}

\* JSON-RPC error codes of the handler; 0 stands for a response with a result
AuthRequired == -32002

NotFound == -32601

ExecutionFailed == -32603

\* remote_server.get_github_client: the cached client of the token, or a new
\* one validated with get_user(); raises for a token GitHub rejects
get_github_client(clients, token) ==
    IF token \in clients THEN [ok |-> TRUE, clients |-> clients]
    ELSE IF token \in ValidTokens THEN [ok |-> TRUE, clients |-> clients \cup {token}]
    ELSE [ok |-> FALSE, clients |-> clients]

\* gitmcp.init_github_client: the global client, created from GITHUB_TOKEN of
\* the environment when there is none yet
init_github_client(client, environ) ==
    IF client = NoToken
    THEN IF environ = NoToken THEN [client |-> NoToken, ok |-> FALSE]
         ELSE [client |-> environ, ok |-> environ \in ValidTokens]
    ELSE [client |-> client, ok |-> TRUE]

\* POST /mcp/http: one request handled from its header to its response
mcp_http_handler(auth, method, tool_name) ==
    LET header == HeaderToken(auth)
        token == IF header = NoToken THEN srv.environ ELSE header
        got == get_github_client(srv.github_clients, token)
        made == init_github_client(srv.github_client, token)
        last == [auth |-> auth, method |-> method, tool |-> tool_name,
                 token |-> token, code |-> 0, ran |-> FALSE, credential |-> NoToken]
        s1 == [srv EXCEPT !.requests = srv.requests + 1]
    IN
    IF token = NoToken
    THEN [s1 EXCEPT !.last = [last EXCEPT !.code = AuthRequired]]
    ELSE IF ~got.ok
    THEN [s1 EXCEPT !.environ = token,
                    !.last = [last EXCEPT !.code = AuthRequired]]
    ELSE LET s2 == [s1 EXCEPT !.environ = token, !.github_clients = got.clients]
         IN  IF method = "tools/list" THEN [s2 EXCEPT !.last = last]
             ELSE IF method # "tools/call" \/ tool_name \notin MCP_TOOLS
             THEN [s2 EXCEPT !.last = [last EXCEPT !.code = NotFound]]
             ELSE [s2 EXCEPT !.github_client = made.client,
                             !.last = [last EXCEPT
                                          !.ran = TRUE,
                                          !.credential = made.client,
                                          !.code = IF made.ok THEN 0
                                                   ELSE ExecutionFailed]]

Request ==
    /\ srv.requests < MaxRequests
    /\ \E auth \in Headers, method \in Methods, tool_name \in ToolNames :
          srv' = mcp_http_handler(auth, method, tool_name)
    /\ UNCHANGED <<commits, tip, inv, ext>>

(* --------------------------- specifications ---------------------------- *)

\* the steps of the tools that publish through the commit pipeline
BatchStep(p) ==
    \/ ReadSource(p)
    \/ CheckDest(p)
    \/ ValidateMove(p)
    \/ ValidateDest(p)
    \/ RefRead(p)
    \/ CreateBlobs(p)
    \/ WalkStep(p)
    \/ CreateTree(p)
    \/ CreateCommit(p)
    \/ RefEdit(p)

\* One client calls any tool, with lists up to MaxBatch, while clients
\* outside the model commit to the branch.
Next ==
    \/ ExternalCommit(Paths)
    \/ Call_batch_update_files(1, BatchPaths, MaxBatch)
    \/ Call_delete_files_batch(1, BatchPaths, MaxBatch)
    \/ Call_move_file(1, Paths)
    \/ Call_rename_file(1, Paths)
    \/ Call_move_files_batch(1, BatchPaths, MaxBatch)
    \/ Call_edit_file(1, Paths)
    \/ Call_delete_folder(1, Folders)
    \/ Call_write_file(1, PairPaths)
    \/ Call_delete_file(1, PairPaths)
    \/ FolderStep(1)
    \/ BatchStep(1)
    \/ FileStep(1)

Spec == Init /\ [][Next]_vars

\* Two clients call the batch tools at once, each with lists of one element,
\* while clients outside the model commit to the branch.
NextPair ==
    \/ ExternalCommit({<<"b">>})
    \/ \E p \in Procs :
          \/ Call_batch_update_files(p, PairPaths, 1)
          \/ Call_delete_files_batch(p, PairPaths, 1)
          \/ Call_move_file(p, PairPaths)
          \/ Call_rename_file(p, PairPaths)
          \/ Call_move_files_batch(p, PairPaths, 1)
          \/ BatchStep(p)

SpecPair == Init /\ [][NextPair]_vars

\* The same client against a store whose calls may fail.
NextFault ==
    \/ Next
    \/ WalkFail(1)
    \/ RemoteFail(1)
    \/ DestFail(1)

SpecFault == Init /\ [][NextFault]_vars

\* The HTTP server, started with or without GITHUB_TOKEN in its environment,
\* handles requests one after another.
InitServer == InitBranch /\ \E token \in {NoToken, "t1"} : srv = Started(token)

NextServer == Request

SpecServer == InitServer /\ [][NextServer]_vars

\* the steps of client p's running call
Steps(p) == BatchStep(p) \/ FolderStep(p) \/ FileStep(p)

\* A tool is synchronous straight-line code: once called it keeps taking its
\* next step until it returns.
NextLive ==
    \/ ExternalCommit({<<"b">>})
    \/ Call_batch_update_files(1, PairPaths, MaxBatch)
    \/ Call_delete_files_batch(1, PairPaths, MaxBatch)
    \/ Call_move_file(1, Paths)
    \/ Call_rename_file(1, Paths)
    \/ Call_move_files_batch(1, PairPaths, MaxBatch)
    \/ Call_edit_file(1, Paths)
    \/ Call_delete_folder(1, Folders)
    \/ Call_write_file(1, PairPaths)
    \/ Call_delete_file(1, PairPaths)
    \/ Steps(1)

SpecLive == Init /\ [][NextLive]_vars /\ WF_vars(Steps(1))

(* ------------------------ what the claims speak of --------------------- *)

Done(p) == inv[p].pc = "done"

Succeeded(p) == inv[p].result = "success"

Failed(p) == Done(p) /\ ~Succeeded(p)

\* the remote calls that create an object or move the branch
Mutations ==
    {"create_git_blob", "create_git_tree", "create_git_commit", "ref.edit",
     "update_file", "create_file", "delete_file"}

NoMutation(p) == \A k \in 1..Len(inv[p].calls) : inv[p].calls[k] \notin Mutations

\* the commits of invocation p that the branch holds
Published(p) ==
    {c \in 1..Len(commits) : commits[c].by = p /\ IsAncestor(c, tip)}

MoveTools == {"move_file", "move_files_batch", "rename_file"}

TreeTools == MoveTools \cup {"delete_files_batch"}

MultiTools == {"batch_update_files", "delete_files_batch", "move_files_batch"}

\* the moves of a call of a move tool, as (source, destination) pairs
MovesOf(r) ==
    IF r.tool = "move_files_batch" THEN r.moves
    ELSE << [source |-> r.source_path, destination |-> r.destination_path] >>

SourcesOf(r) == {MovesOf(r)[k].source : k \in 1..Len(MovesOf(r))}

DestinationsOf(r) == {MovesOf(r)[k].destination : k \in 1..Len(MovesOf(r))}

ExcludedPaths(r) ==
    IF r.tool = "delete_files_batch" THEN Range(r.file_paths) ELSE SourcesOf(r)

AddedPaths(r) ==
    IF r.tool = "delete_files_batch" THEN {} ELSE DestinationsOf(r)

(* ---------------------------------- C1 --------------------------------- *)

C2_ErrorLeavesBranch ==
    \A p \in Procs :
       (inv[p].tool \in BatchTools /\ Failed(p)) => Published(p) = {}

\* a batch tool created its commit and had its ref update rejected
C2_Witness ==
    \E p \in Procs :
       /\ inv[p].tool \in BatchTools
       /\ Failed(p)
       /\ inv[p].commit # 0
       /\ inv[p].result = "GithubException"
       /\ CountCalls(p, "ref.edit") = 1

(* ---------------------------------- C3 --------------------------------- *)

\* the content the last entry of changes for path q gives it
LastWrite(changes, q) ==
    LET ks == {k \in 1..Len(changes) : changes[k].path = q}
    IN  changes[CHOOSE k \in ks : \A j \in ks : j <= k].content

\* every edit of the batch is in the tree
AllEdits(r, tree) ==
    CASE r.tool = "batch_update_files" ->
            \A k \in 1..Len(r.changes) :
               /\ Exists(tree, r.changes[k].path)
               /\ tree[r.changes[k].path].sha = LastWrite(r.changes, r.changes[k].path)
      [] r.tool = "delete_files_batch" ->
            \A q \in Range(r.file_paths) : ~Exists(tree, q)
      [] OTHER ->
            /\ \A k \in 1..Len(r.file_contents) :
                  /\ Exists(tree, r.file_contents[k].path)
                  /\ tree[r.file_contents[k].path].sha = r.file_contents[k].content
            /\ \A q \in SourcesOf(r) \ DestinationsOf(r) : ~Exists(tree, q)

\* C3: at every state of a multi-file batch (batch_update_files,
\* delete_files_batch, move_files_batch) the branch holds either no commit of
\* the invocation or one commit with all of its edits, and the invocation
\* updates the ref at most once.
C3_AllOrNothing ==
    \A p \in Procs :
       inv[p].tool \in MultiTools =>
          /\ Cardinality(Published(p)) <= 1
          /\ CountCalls(p, "ref.edit") <= 1
          /\ \A c \in Published(p) : AllEdits(inv[p], commits[c].tree)
          /\ ~Done(p) => Published(p) = {}

\* a move of two files is on the branch
C3_Witness ==
    \E p \in Procs :
       /\ inv[p].tool = "move_files_batch"
       /\ Len(inv[p].moves) = 2
       /\ inv[p].moves[1].source # inv[p].moves[2].source
       /\ Published(p) # {}

(* ---------------------------------- C4 --------------------------------- *)

\* the invocation issued its ref update and returned
Attempted(p) == Done(p) /\ CountCalls(p, "ref.edit") = 1

\* two invocations of batch tools that read the same tip from get_git_ref
\* and both went on to their ref update
SameTipPair(p, q) ==
    /\ p # q
    /\ inv[p].tool \in BatchTools
    /\ inv[q].tool \in BatchTools
    /\ inv[p].latest = inv[q].latest
    /\ Attempted(p)
    /\ Attempted(q)

\* a commit of neither p nor q took the branch from the tip they read
TakenByThird(p, q) ==
    \E c \in 1..Len(commits) :
       /\ commits[c].by \notin {p, q}
       /\ commits[c].parent = inv[p].latest
       /\ IsAncestor(c, tip)

\* C4 as stated: of two batch operations that observed the same tip and both
\* created a commit, exactly one ref update succeeds, the other returns an
\* error, and the branch stays at the first publisher's commit.
C4_ExactlyOne ==
    \A p, q \in Procs :
       SameTipPair(p, q) =>
          /\ Succeeded(p) # Succeeded(q)
          /\ Succeeded(p) => /\ Published(q) = {}
                             /\ IsAncestor(inv[p].commit, tip)

\* C4 as amended: at most one of the two ref updates succeeds; when one does,
\* the other returns an error and the branch keeps the first publisher's
\* commit; both are rejected exactly when a third writer's commit took the
\* branch from the tip they read.
C4_AtMostOne ==
    \A p, q \in Procs :
       SameTipPair(p, q) =>
          /\ ~(Succeeded(p) /\ Succeeded(q))
          /\ Succeeded(p) => /\ inv[q].result = "GithubException"
                             /\ Published(q) = {}
                             /\ IsAncestor(inv[p].commit, tip)
          /\ (Succeeded(p) \/ Succeeded(q)) <=> ~TakenByThird(p, q)

\* two batch operations read the same tip; one published, the other was
\* rejected
C4_Witness ==
    \E p, q \in Procs :
       /\ SameTipPair(p, q)
       /\ Succeeded(p)
       /\ inv[q].result = "GithubException"
       /\ inv[q].commit # 0

(* ---------------------------------- C5 --------------------------------- *)

\* C5 as stated: for move_file, rename_file and move_files_batch, a commit by
\* another writer at any point after the first read of a source and before
\* the ref update makes the ref update fail; so a call that read a source
\* and succeeded published its commit directly on the tip at which it read.
C5_RaceDetected ==
    \A p \in Procs :
       (inv[p].tool \in MoveTools /\ inv[p].first_read # 0 /\ Succeeded(p)) =>
          commits[inv[p].commit].parent = inv[p].first_read

(* ---------------------------------- C6 --------------------------------- *)

\* the number of positions of s at which t occurs
Occurrences(s, t) == Cardinality({k \in 1..(Len(s) + 1) : MatchAt(s, t, k)})

\* edit_file read the file
WasRead(r) ==
    \/ r.pc = "update"
    \/ r.pc = "done" /\ ~(r.result = "GithubException" /\ Len(r.calls) = 1)

\* C6 as stated: edit_file goes on to update the file only when old_text
\* occurs exactly once in the content it read; with no occurrence it returns
\* the text-not-found error, with n >= 2 occurrences the ambiguity error
\* carrying n, in both cases without an update call and with the branch as
\* it was.
C6_ExactlyOnce ==
    \A p \in Procs :
       (inv[p].tool = "edit_file" /\ WasRead(inv[p])) =>
          LET n == Occurrences(inv[p].content, inv[p].old_text) IN
          /\ n = 0 => /\ inv[p].result = "TextNotFound"
                      /\ NoMutation(p)
                      /\ Published(p) = {}
          /\ n >= 2 => /\ inv[p].result = "AmbiguousMatch"
                       /\ inv[p].occurrences = n
                       /\ NoMutation(p)
                       /\ Published(p) = {}
          /\ n = 1 => inv[p].result \notin {"TextNotFound", "AmbiguousMatch"}

(* ---------------------------------- C7 --------------------------------- *)

\* with no other writer the branch is at the first commit until the call
\* itself moves it: a destination of the call exists there and is not a
\* source of the call
TakenDestination(r) ==
    \E k \in 1..Len(MovesOf(r)) :
       /\ Exists(commits[1].tree, MovesOf(r)[k].destination)
       /\ MovesOf(r)[k].destination \notin SourcesOf(r)

AllSourcesExist(r) == \A q \in SourcesOf(r) : Exists(commits[1].tree, q)

DuplicateMoves(moves) ==
    \E j, k \in 1..Len(moves) :
       /\ j < k
       /\ \/ moves[j].source = moves[k].source
          \/ moves[j].destination = moves[k].destination

C8_OrderIndependent ==
    \A p \in Procs :
       (inv[p].tool = "move_files_batch" /\ inv[p].result = "DestinationExists") =>
          inv[p].err_path \notin SourcesOf(inv[p])

(* ---------------------------------- C9 --------------------------------- *)

\* C9 as stated: a batch_update_files call with two entries for the same path
\* fails and publishes nothing.
C9_DuplicateWriteRejected ==
    \A p \in Procs :
       (/\ inv[p].tool = "batch_update_files"
        /\ \E j, k \in 1..Len(inv[p].changes) :
              j < k /\ inv[p].changes[j].path = inv[p].changes[k].path) =>
          /\ ~Succeeded(p)
          /\ Published(p) = {}

(* ---------------------------------- C10 -------------------------------- *)

\* the first element of the list that repeats the source or the destination
\* of an earlier one
SecondOfDuplicate(moves) ==
    CHOOSE k \in 1..Len(moves) :
       /\ DuplicateMoves(SubSeq(moves, 1, k))
       /\ ~DuplicateMoves(SubSeq(moves, 1, k - 1))

\* C10 as stated: move_files_batch rejects a list in which two moves share a
\* source with the duplicate-source error, or a destination with the
\* duplicate-destination error, and creates no blob, tree or commit and does
\* not move the ref.
C10_DuplicateError ==
    \A p \in Procs :
       (inv[p].tool = "move_files_batch" /\ DuplicateMoves(inv[p].moves)) =>
          /\ NoMutation(p)
          /\ Published(p) = {}
          /\ Done(p) => inv[p].result \in {"DuplicateSource", "DuplicateDestination"}

\* C10 as amended: move_files_batch rejects every such list, wherever the
\* duplicate stands, without creating a blob, tree or commit and without
\* moving the ref; the loop never passes the second element of the duplicate,
\* and the error is the duplicate-source error (or, the sources differing,
\* the duplicate-destination error) unless an earlier element failed its
\* source or destination check.
C10_DuplicatesRejected ==
    \A p \in Procs :
       (inv[p].tool = "move_files_batch" /\ DuplicateMoves(inv[p].moves)) =>
          LET r == inv[p]
              k == SecondOfDuplicate(r.moves)
          IN
          /\ NoMutation(p)
          /\ Published(p) = {}
          /\ r.pc \in {"validate", "validate_dest", "done"}
          /\ r.i <= k
          /\ Done(p) =>
                IF r.i < k
                THEN r.result \in {"SourceNotFound", "DestinationExists"}
                ELSE IF \E j \in 1..(k - 1) : r.moves[j].source = r.moves[k].source
                THEN r.result = "DuplicateSource" /\ r.err_path = r.moves[k].source
                ELSE /\ r.result = "DuplicateDestination"
                     /\ r.err_path = r.moves[k].destination

\* the second move of a batch repeated the destination of the first and was
\* refused for it
C10_Witness ==
    \E p \in Procs :
       /\ inv[p].tool = "move_files_batch"
       /\ Len(inv[p].moves) = 2
       /\ inv[p].moves[1].source # inv[p].moves[2].source
       /\ inv[p].result = "DuplicateDestination"
       /\ NoMutation(p)

(* ---------------------------------- C11 -------------------------------- *)

\* the paths a call reads as the source of a move or of a text replacement
ReadPathsOf(r) == IF r.tool = "edit_file" THEN {r.file_path} ELSE SourcesOf(r)

\* no commit of another writer holds a file at q
NeverOnBranch(p, q) ==
    \A c \in 1..Len(commits) : commits[c].by # p => commits[c].tree[q].mode = "absent"

\* C11: a call of move_file, rename_file, move_files_batch or edit_file one of
\* whose source paths does not exist on the branch makes no remote write,
\* publishes nothing and does not return success, wherever the missing
\* source stands in the list of move_files_batch.
C11_MissingSource ==
    \A p \in Procs :
       (/\ inv[p].tool \in MoveTools \cup {"edit_file"}
        /\ \E q \in ReadPathsOf(inv[p]) : NeverOnBranch(p, q)) =>
          /\ NoMutation(p)
          /\ Published(p) = {}
          /\ inv[p].commit = 0
          /\ ~Succeeded(p)

\* the last move of a batch names a missing source after a valid first move,
\* and the call returned the source-not-found error
C11_Witness ==
    \E p \in Procs :
       /\ inv[p].tool = "move_files_batch"
       /\ Len(inv[p].moves) = 2
       /\ inv[p].i = 2
       /\ commits[1].tree[inv[p].moves[1].source].mode # "absent"
       /\ NeverOnBranch(p, inv[p].moves[2].source)
       /\ inv[p].result = "SourceNotFound"
       /\ inv[p].err_path = inv[p].moves[2].source

(* ---------------------------------- C12 -------------------------------- *)

\* the errors of validation; a missing source or file is reported by
\* move_file, rename_file and edit_file as the remote exception of their
\* first read
ValidationErrors ==
    {"DuplicateSource", "DuplicateDestination", "SourceNotFound",
     "DestinationExists", "TextNotFound", "AmbiguousMatch", "SameName"}

ValidationError(r) ==
    \/ r.result \in ValidationErrors
    \/ /\ r.result = "GithubException"
       /\ r.tool \in {"move_file", "rename_file", "edit_file"}
       /\ r.calls = <<"get_contents">>

\* C12: an invocation that returned a validation error has, up to that
\* return, made no create-blob, create-tree, create-commit, ref-update or
\* update-file call.
C12_ValidationFirst ==
    \A p \in Procs : ValidationError(inv[p]) => NoMutation(p) /\ inv[p].commit = 0

\* rename_file found its destination taken, after the read of its source
C12_Witness ==
    \E p \in Procs :
       /\ inv[p].tool = "rename_file"
       /\ inv[p].result = "DestinationExists"
       /\ Len(inv[p].calls) = 2

(* ---------------------------------- C13 -------------------------------- *)

C14_FolderGone ==
    \A p \in Procs :
       (inv[p].outer = "delete_folder" /\ Succeeded(p)) =>
          LET new == commits[inv[p].commit].tree
              old == commits[commits[inv[p].commit].parent].tree
          IN
          /\ \A q \in Paths : IsUnder(q, inv[p].folder_path) => new[q].mode = "absent"
          /\ \A q \in Paths :
                (~IsUnder(q, inv[p].folder_path) /\ old[q].mode # "absent") =>
                    new[q].mode # "absent"

(* ---------------------------------- C15 -------------------------------- *)

\* C15 as stated: the entry list that move_file, rename_file,
\* move_files_batch or delete_files_batch hands to create_git_tree never
\* names a path twice, also when another writer commits between the
\* destination check and the walk.
C15_UniqueEntries ==
    \A p \in Procs :
       (inv[p].tool \in TreeTools /\ inv[p].pc \in {"tree", "commit", "edit", "done"}) =>
          ~HasDuplicatePaths(inv[p].tree_elements)

(* ---------------------------------- C16 -------------------------------- *)

\* C16 as stated: when a directory listing fails during the walk, the walk
\* goes on with that subtree taken as empty, and still no commit is published
\* whose tree omits a file of the previous tip that was neither a deleted
\* path nor a move source of the batch.
C16_NothingOmitted ==
    \A p \in Procs :
       (inv[p].tool \in TreeTools /\ Succeeded(p)) =>
          LET new == commits[inv[p].commit].tree
              old == commits[commits[inv[p].commit].parent].tree
          IN  \A q \in Paths \ ExcludedPaths(inv[p]) :
                 old[q].mode # "absent" => new[q].mode # "absent"

(* ---------------------------------- C17 -------------------------------- *)

\* in the log of an invocation every call named `first` comes before every
\* call named `then`
Precedes(calls, first, then) ==
    \A j, k \in 1..Len(calls) :
       (calls[j] = then /\ calls[k] = first) => k < j

\* C17 as stated: in a call of move_file, rename_file or move_files_batch no
\* blob is created before the last read of the walk, the blobs come before
\* the tree, the tree before the commit and the commit before the ref
\* update.
C17_StageOrder ==
    \A p \in Procs :
       inv[p].tool \in MoveTools =>
          /\ Precedes(inv[p].calls, "get_contents", "create_git_blob")
          /\ Precedes(inv[p].calls, "create_git_blob", "create_git_tree")
          /\ Precedes(inv[p].calls, "create_git_tree", "create_git_commit")
          /\ Precedes(inv[p].calls, "create_git_commit", "ref.edit")

(* ---------------------------------- C18 -------------------------------- *)

\* C18: the commit a batch tool creates has as its parent the commit the
\* tool read from the branch ref, and each invocation creates one commit; a
\* ref update succeeds only while the branch still points to that parent and
\* moves it to the new commit; the branch only ever moves to a child of its
\* tip, so its history is a chain with one commit per successful invocation.
C18_LinearHistory ==
    /\ [](\A p \in Procs :
            inv[p].tool \in BatchTools =>
               /\ Cardinality({c \in 1..Len(commits) : commits[c].by = p}) <= 1
               /\ \A c \in 1..Len(commits) :
                     commits[c].by = p =>
                        /\ c = inv[p].commit
                        /\ inv[p].latest # 0
                        /\ commits[c].parent = inv[p].latest
               /\ Succeeded(p) => Published(p) = {inv[p].commit}
               /\ ~Succeeded(p) => Published(p) = {})
    /\ [][\A p \in Procs :
            (inv[p].pc = "edit" /\ inv'[p].result = "success") =>
               /\ tip = inv[p].latest
               /\ tip' = inv[p].commit]_vars
    /\ [][tip' # tip => commits'[tip'].parent = tip]_vars

\* both clients published: the branch is the chain of the first commit and
\* their two commits
C18_Witness ==
    /\ \A p \in Procs : Succeeded(p) /\ inv[p].commit # 0
    /\ \E p, q \in Procs :
          /\ tip = inv[q].commit
          /\ commits[tip].parent = inv[p].commit
          /\ commits[inv[p].commit].parent = 1

(* ---------------------------------- C19 -------------------------------- *)

\* C19 as stated: every file a successful delete_files_batch, move_file,
\* move_files_batch or rename_file retains is in the published tree with the
\* content reference and the file mode it has in the parent commit.
C19_RetainedUnchanged ==
    \A p \in Procs :
       (inv[p].tool \in TreeTools /\ Succeeded(p)) =>
          LET new == commits[inv[p].commit].tree
              old == commits[commits[inv[p].commit].parent].tree
          IN  \A q \in Paths \ (ExcludedPaths(inv[p]) \cup AddedPaths(inv[p])) :
                 old[q].mode # "absent" =>
                    /\ new[q].sha = old[q].sha
                    /\ new[q].mode = old[q].mode

(* ---------------------------------- C20 -------------------------------- *)

\* C20: an invocation of a batch tool reads the branch ref at most once,
\* creates at most one tree and one commit and requests the ref update at
\* most once; the ref update is its last remote call, and when it is
\* rejected the invocation returns the error.
C20_NoRetry ==
    \A p \in Procs :
       inv[p].tool \in BatchTools =>
          /\ CountCalls(p, "get_git_ref") <= 1
          /\ CountCalls(p, "create_git_tree") <= 1
          /\ CountCalls(p, "create_git_commit") <= 1
          /\ CountCalls(p, "ref.edit") <= 1
          /\ CountCalls(p, "ref.edit") = 1 =>
                /\ Done(p)
                /\ inv[p].calls[Len(inv[p].calls)] = "ref.edit"
                /\ inv[p].result \in {"success", "GithubException"}

\* the ref update of an invocation was rejected and the invocation returned
\* the error
C20_Witness ==
    \E p \in Procs :
       /\ inv[p].tool \in BatchTools
       /\ Done(p)
       /\ inv[p].result = "GithubException"
       /\ CountCalls(p, "ref.edit") = 1
       /\ tip # inv[p].commit
       /\ tip # inv[p].latest

(* ---------------------------------- C21 -------------------------------- *)

\* the stage of an invocation: reading the folder, validating, reading the
\* ref, writing blobs, walking, building the tree, committing, publishing,
\* returned
Rank(pc) ==
    CASE pc = "idle" -> 0
      [] pc = "folder" -> 1
      [] pc \in {"source", "dest", "validate", "validate_dest", "read", "wread",
                 "dread"} -> 2
      [] pc = "ref" -> 3
      [] pc = "blob" -> 4
      [] pc = "walk" -> 5
      [] pc = "tree" -> 6
      [] pc = "commit" -> 7
      [] pc \in {"edit", "update", "wupdate", "create", "delete"} -> 8
      [] OTHER -> 9

\* the directories of the repository
Dirs == UNION {{SubSeq(q, 1, k) : k \in 0..(Len(q) - 1)} : q \in Paths}

\* the reads of the tree walk: the get_contents calls after the ref read
WalkReads(p) ==
    Cardinality({k \in 1..Len(inv[p].calls) :
                    /\ inv[p].calls[k] = "get_contents"
                    /\ \E j \in 1..(k - 1) : inv[p].calls[j] = "get_git_ref"})

\* C21: an invocation never goes back to an earlier stage or to an earlier
\* element of its list; its walk reads at most once per directory; once
\* called it returns, and it returns either success with its commit on the
\* branch or an error with no commit of its own on the branch.
C21_Terminates ==
    /\ [][\A p \in Procs :
            /\ Rank(inv'[p].pc) >= Rank(inv[p].pc)
            /\ inv'[p].i >= inv[p].i
            /\ Len(inv'[p].calls) >= Len(inv[p].calls)]_vars
    /\ [](\A p \in Procs :
            /\ WalkReads(p) <= Cardinality(Dirs)
            /\ Done(p) =>
                  \/ Succeeded(p) /\ Published(p) = {inv[p].commit}
                  \/ ~Succeeded(p) /\ inv[p].result # "none" /\ Published(p) = {})
    /\ \A p \in Procs : (inv[p].pc # "idle") ~> Done(p)

\* a batch move went through every stage, walked the root and the directory,
\* and returned success
C21_Witness ==
    \E p \in Procs :
       /\ inv[p].tool = "move_files_batch"
       /\ inv[p].moves # <<>>
       /\ WalkReads(p) = Cardinality(Dirs)
       /\ Done(p)
       /\ Succeeded(p)

(* ---------------------------------- C22 -------------------------------- *)

\* C22: an invocation one of whose remote calls before the ref update failed
\* does not move the branch: no commit of its own is on the branch.
C22_FailureLeavesRef ==
    \A p \in Procs : inv[p].faults > 0 => Published(p) = {}

(* ---------------------------------- C23 -------------------------------- *)

\* no version of the branch has a file under the folder
NothingUnder(folder) ==
    \A c \in 1..Len(commits) :
       commits[c].by = 0 => \A q \in Files(commits[c].tree) : ~IsUnder(q, folder)

\* C23: delete_folder hands delete_files_batch a non-empty list of paths
\* under folder_path only; on a folder under which the branch has no file it
\* returns the not-found-or-empty error without creating a tree or a commit
\* and without moving the ref.
C23_EmptyFolder ==
    \A p \in Procs :
       /\ inv[p].outer = "delete_folder" =>
             /\ inv[p].file_paths # <<>>
             /\ \A k \in 1..Len(inv[p].file_paths) :
                   IsUnder(inv[p].file_paths[k], inv[p].folder_path)
       /\ /\ Done(p)
          /\ "delete_folder" \in {inv[p].tool, inv[p].outer}
          /\ NothingUnder(inv[p].folder_path)
          => /\ inv[p].result = "FolderNotFound"
             /\ NoMutation(p)
             /\ Published(p) = {}

(* ---------------------------------- C24 -------------------------------- *)

\* the directory of a path
DirOf(q) == SubSeq(q, 1, Len(q) - 1)

\* C24: rename_file keeps the file in its directory, the new path being the
\* old one with its last segment replaced; a new name equal to the current
\* one is an error returned before any remote call; after a success the
\* published tree has the new path and not the old one.
C24_RenameInPlace ==
    \A p \in Procs :
       inv[p].tool = "rename_file" =>
          /\ Done(p) /\ CurrentName(inv[p].file_path) = inv[p].new_name
                => inv[p].result = "SameName" /\ inv[p].calls = <<>>
          /\ Succeeded(p)
                => /\ DirOf(inv[p].destination_path) = DirOf(inv[p].file_path)
                   /\ commits[inv[p].commit].tree[inv[p].file_path].mode = "absent"
                   /\ commits[inv[p].commit].tree[inv[p].destination_path].mode # "absent"

(* ---------------------------------- C25 -------------------------------- *)

\* C25: unless the operator started the server with GITHUB_TOKEN set, a
\* tools/call request without a Bearer or github_pat_ token in its
\* Authorization header is answered with the authentication error and runs
\* no tool, whatever requests came before it.
C25_NoTokenNoTool ==
    /\ srv.last.method = "tools/call"
    /\ HeaderToken(srv.last.auth) = NoToken
    /\ ~srv.operator
    => srv.last.code = AuthRequired /\ ~srv.last.ran

(* ---------------------------------- C26 -------------------------------- *)

\* C26: a tool runs with the client of the token of its own request, and the
\* global client of init_github_client is the one of that token.
C26_OwnToken ==
    srv.last.ran =>
       /\ srv.last.credential = srv.last.token
       /\ srv.github_client = srv.last.token

(* ---------------------------------- C27 -------------------------------- *)

\* the one move of a call of move_file or of move_files_batch with a list of
\* one element
OneMove(p) ==
    IF inv[p].tool = "move_file"
    THEN [source |-> inv[p].source_path, destination |-> inv[p].destination_path]
    ELSE inv[p].moves[1]

\* what move_file(s, d) does on a branch nobody else writes to: it succeeds
\* when s exists and d does not
MoveFileSucceeds(tree, s, d) == tree[s].mode # "absent" /\ tree[d].mode = "absent"

\* C27: on a branch nobody else writes to, move_files_batch with the list
\* [{s, d}] ends as move_file(s, d) does: both succeed in the same cases, s = d
\* included, and publish the same files.
C27_SingleMoveSame ==
    \A p \in Procs :
       /\ Done(p)
       /\ ext = 0
       /\ \/ inv[p].tool = "move_file"
          \/ inv[p].tool = "move_files_batch" /\ Len(inv[p].moves) = 1
       => LET s == OneMove(p).source
              d == OneMove(p).destination
              before == commits[1].tree
          IN  /\ Succeeded(p) <=> MoveFileSucceeds(before, s, d)
              /\ Succeeded(p) =>
                    \A q \in Paths :
                       commits[inv[p].commit].tree[q].sha =
                          IF q = d THEN before[s].sha
                          ELSE IF q = s THEN <<>>
                          ELSE before[q].sha

(* ---------------------------------- C28 -------------------------------- *)

\* the result of delete_files_batch: "deleted_paths" and "files_deleted"
deleted_paths(r) == r.file_paths

files_deleted(r) == Len(r.file_paths)

\* C28: every path a successful delete_files_batch reports as deleted was a
\* file of the parent commit and is none of the published one, files_deleted
\* being the length of that list; a call all of whose paths do not exist
\* publishes no commit.
C28_ReportedDeletions ==
    \A p \in Procs :
       inv[p].tool = "delete_files_batch" =>
          /\ Succeeded(p) =>
                /\ files_deleted(inv[p]) = Len(deleted_paths(inv[p]))
                /\ \A q \in Range(deleted_paths(inv[p])) :
                      /\ commits[inv[p].latest].tree[q].mode # "absent"
                      /\ commits[inv[p].commit].tree[q].mode = "absent"
          /\ /\ Done(p)
             /\ inv[p].file_paths # <<>>
             /\ inv[p].latest # 0
             /\ \A q \in Range(inv[p].file_paths) :
                   commits[inv[p].latest].tree[q].mode = "absent"
             => Published(p) = {}

(* ---------------------------------- C29 -------------------------------- *)

\* the call read the file and then wrote with the sha it had read
WroteWithSha(p) ==
    \/ inv[p].tool = "edit_file" /\ CountCalls(p, "update_file") > 0
    \/ inv[p].tool = "write_file" /\ CountCalls(p, "update_file") > 0
    \/ inv[p].tool = "delete_file" /\ CountCalls(p, "delete_file") > 0

\* C29: a commit of edit_file, of write_file on an existing file or of
\* delete_file replaces the very version of the file the call had read: the
\* file in the parent of that commit is the one read.
C29_OnlyReadVersion ==
    \A p \in Procs :
       WroteWithSha(p) /\ Succeeded(p) =>
          LET was == commits[commits[inv[p].commit].parent].tree[inv[p].file_path]
          IN  was.mode # "absent" /\ was.sha = inv[p].content

(* ---------------------------------- C30 -------------------------------- *)

\* the result of batch_update_files: "files_changed" and "paths"
files_changed(r) == Len(r.changes)

changed_paths(r) == [k \in 1..Len(r.changes) |-> r.changes[k].path]

\* C30: the tree a successful batch_update_files publishes is the tree of the
\* tip it read with every listed path holding the content given for it; a
\* path not listed is as it was, content and mode; files_changed is the
\* number of entries of changes.
C30_OnlyListedPaths ==
    \A p \in Procs :
       inv[p].tool = "batch_update_files" /\ Succeeded(p) =>
          LET published == commits[inv[p].commit].tree
              observed == commits[inv[p].latest].tree
          IN  /\ \A k \in 1..Len(inv[p].changes) :
                    /\ published[inv[p].changes[k].path].mode # "absent"
                    /\ published[inv[p].changes[k].path].sha = inv[p].changes[k].content
              /\ \A q \in Paths \ Range(changed_paths(inv[p])) :
                    published[q] = observed[q]
              /\ files_changed(inv[p]) = Len(inv[p].changes)

====
